---- MODULE Spec2Model ----
(***************************************************************************)
(* Document retrieval of gen_ai/common/document_retriever.py:              *)
(* SemanticDocumentRetriever.get_related_docs_from_store (single query),   *)
(* DocumentRetriever.get_multiple_related_docs_from_store (query batch)    *)
(* and SemanticDocumentRetriever.get_related_docs_from_store_uhg (routed). *)
(*                                                                         *)
(* A retrieval request runs as a process.  Its steps are the calls it      *)
(* makes to the Chroma store: one action runs the code from one store call *)
(* to the next.  Python dictionaries are objects of a per-request heap, so *)
(* that copying and in-place deletion are distinguishable.                 *)
(*                                                                         *)
(* Further parts, each with a specification of its own over the same       *)
(* variables: common.remove_duplicates applied on its own (SpecDedup),     *)
(* DocumentRetrieverProvider (SpecProvider), two concurrent callers        *)
(* (SpecConc), run_pipeline and run_single_prediction of                   *)
(* gen_ai/check_pipeline.py (SpecPipeline), create_dataset and             *)
(* create_table of gen_ai/common/bq_utils.py (SpecBq).                     *)
(***************************************************************************)
EXTENDS Integers, Sequences, FiniteSets, TLC

(***************************************************************************)
(* Bounds of the model.                                                    *)
(***************************************************************************)
\* number of distinct query strings
NumQueries == 2
\* longest query batch handed to the multi-query retrieval
MaxBatch == 2
\* corpus sizes 0..MaxShort (fewer hits than the truncation length)
MaxShort == 0
\* corpus sizes TopN .. TopN+MaxExtra (at and past the truncation length)
MaxExtra == 1
\* contents repeat with a period in 1..MaxPeriod (duplicates among the hits)
MaxPeriod == 2
\* the diversity search starts 0..MaxShift places into the ranking
MaxShift == 0
\* longest list handed to remove_duplicates on its own
MaxDedupLen == 4
\* its documents have page contents 0..MaxDedupContent
MaxDedupContent == 1
\* remove_duplicates is applied to its own output up to this many times
MaxDedupPasses == 2
\* longest query batch of two concurrent requests
MaxConcBatch == 1
\* most rows of the CSV run_pipeline reads
MaxRows == 2
\* most exchanges of the conversation llm.respond_api returns
MaxExchanges == 2

(***************************************************************************)
(* Constants of the program.                                               *)
(***************************************************************************)
\* similarity_search_with_score(..., k=50)
K_SS == 50
\* ss_docs[0:20]
TopN == 20
\* max_marginal_relevance_search(..., k=1, ...)
K_MMR == 1
\* max_marginal_relevance_search(..., lambda_mult=0.5)
LambdaMult == "0.5"

Procs == {"p1", "p2"}
MainProc == "p1"
PeerProc == "p2"

Queries == 1..NumQueries

(***************************************************************************)
(* Python values.                                                          *)
(***************************************************************************)
\* the reference of Python's None
None == 0

EmptyDict == [k \in {} |-> ""]

\* A dict object: its form is "plain" for an ordinary mapping and "and" for
\* the conjunctive predicate convert_to_chroma_format builds.
PlainDict(kv) == [form |-> "plain", kv |-> kv]

\* a filter argument left out of a store call, a scope argument left out
NoFilter == [form |-> "none", kv |-> EmptyDict]

DictKeys(obj) == DOMAIN obj.kv

\* d[key] = value
DictSet(obj, key, value) ==
    [obj EXCEPT !.kv = [k \in (DOMAIN obj.kv) \cup {key} |->
                            IF k = key THEN value ELSE obj.kv[k]]]

\* del d[key]
DictDel(obj, key) ==
    [obj EXCEPT !.kv = [k \in (DOMAIN obj.kv) \ {key} |-> obj.kv[k]]]

\* len(d)
DictLen(obj) == Cardinality(DOMAIN obj.kv)

(***************************************************************************)
(* The scopes a caller may supply: any combination of a member id, a set   *)
(* number, a partition tag and one further key.                            *)
(***************************************************************************)
ScopeValues ==
    [member_id |-> {"m1"}, set_number |-> {"abc"},
     data_source |-> {"b360", "kc"}, topic |-> {"claims"}]

ScopeKeys == {"member_id", "set_number", "data_source", "topic"}

ScopeDicts ==
    UNION {[K -> {"m1", "abc", "b360", "kc", "claims"}] : K \in SUBSET ScopeKeys}

Scopes == {PlainDict(d) : d \in {f \in ScopeDicts :
                                    \A k \in DOMAIN f : f[k] \in ScopeValues[k]}}

(***************************************************************************)
(* The heap of one request: a sequence of dict objects, a reference is an  *)
(* index into it.  The caller's scope, when present, is object 1.          *)
(***************************************************************************)
HeapRef(h, r) == [heap |-> h, ref |-> r]

\* a new object
Alloc(h, obj) == HeapRef(Append(h, obj), Len(h) + 1)

\* copy.deepcopy(x)
DeepCopy(h, r) == Alloc(h, h[r])

\* remove_member_id without the copy
remove_member_id_inplace(h, r) ==
    IF "member_id" \in DictKeys(h[r])
    THEN HeapRef([h EXCEPT ![r] = DictDel(@, "member_id")], r)
    ELSE HeapRef(h, r)

\* remove_member_id that copies and forgets to delete
remove_member_id_keep(h, r) == DeepCopy(h, r)

remove_member_id(h, r) ==
    LET new_metadata == DeepCopy(h, r)
    IN  IF "member_id" \in DictKeys(new_metadata.heap[new_metadata.ref])
        THEN HeapRef([new_metadata.heap EXCEPT
                         ![new_metadata.ref] = DictDel(@, "member_id")],
                     new_metadata.ref)
        ELSE new_metadata

\* gen_ai.common.chroma_utils.convert_to_chroma_format: the mapping as an AND
\* of one equality constraint per entry
convert_to_chroma_format(obj) == [form |-> "and", kv |-> obj.kv]

\* a preparation that counts the keys before member_id is removed
PrepareFilterCountsBefore(h, r) ==
    LET given == IF r = None THEN Alloc(h, PlainDict(EmptyDict)) ELSE HeapRef(h, r)
        stripped == remove_member_id(given.heap, given.ref)
    IN  IF DictLen(given.heap[given.ref]) > 1
        THEN Alloc(stripped.heap,
                   convert_to_chroma_format(stripped.heap[stripped.ref]))
        ELSE stripped

\* get_related_docs_from_store, from its entry to the first store call:
\* the local variable metadata after the filter is prepared
PrepareFilter(h, r) ==
    LET given == IF r = None THEN Alloc(h, PlainDict(EmptyDict)) ELSE HeapRef(h, r)
        stripped == remove_member_id(given.heap, given.ref)
    IN  IF DictLen(stripped.heap[stripped.ref]) > 1
        THEN Alloc(stripped.heap,
                   convert_to_chroma_format(stripped.heap[stripped.ref]))
        ELSE stripped

(***************************************************************************)
(* Documents and the Chroma store.  The store is outside the program: a    *)
(* store state fixes, for each query, the ranking the similarity search    *)
(* answers from and the order the diversity search answers from.  Two      *)
(* stored entries may hold equal (page_content, metadata).                 *)
(***************************************************************************)
Min(a, b) == IF a < b THEN a ELSE b

\* corpus sizes: fewer hits than TopN, around TopN, and more than K_SS
Sizes == (0..MaxShort) \cup (TopN..(TopN + MaxExtra)) \cup {K_SS + 1}

\* contents repeat with these periods; with K_SS + 1 no two entries are equal
Periods == (1..MaxPeriod) \cup {TopN, K_SS + 1}

Shifts == (0..MaxShift) \cup {TopN}

StoreStates == [size : Sizes, period : Periods, shift : Shifts]

\* the n-th entry of the corpus of store state s: every third entry belongs
\* to partition "b360", the others to partition "kc"
StoredDocument(s, n) ==
    [page_content |-> n % s.period,
     metadata |-> [data_source |-> IF n % 3 = 0 THEN "b360" ELSE "kc"]]

\* the entries ranked by similarity to query q, nearest first
Ranking(s, q) ==
    [i \in 1..s.size |-> StoredDocument(s, (i - 1 + (q - 1)) % s.size)]

\* the entries in the order the diversity search selects them for query q
MmrRanking(s, q) ==
    [i \in 1..s.size |-> StoredDocument(s, (i - 1 + s.shift + (q - 1)) % s.size)]

\* whether a stored entry passes a filter
Matches(doc, filter) ==
    \A k \in DOMAIN filter.kv :
        k \in DOMAIN doc.metadata /\ doc.metadata[k] = filter.kv[k]

Filtered(docs, filter) == SelectSeq(docs, LAMBDA d : Matches(d, filter))

\* Chroma.similarity_search_with_score: at most k (document, score) pairs
similarity_search_with_score(s, query, k, filter) ==
    LET hits == Filtered(Ranking(s, query), filter)
    IN  [i \in 1..Min(k, Len(hits)) |-> <<hits[i], i>>]

\* Chroma.max_marginal_relevance_search: at most k documents
max_marginal_relevance_search(s, query, k, filter) ==
    LET hits == Filtered(MmrRanking(s, query), filter)
    IN  [i \in 1..Min(k, Len(hits)) |-> hits[i]]

\* a deduplication that drops the second occurrence of a document only
remove_second_occurrences(docs) ==
    LET kept == SelectSeq([i \in 1..Len(docs) |-> i],
                          LAMBDA i : Cardinality({j \in 1..(i - 1) : docs[j] = docs[i]}) # 1)
    IN  [n \in 1..Len(kept) |-> docs[kept[n]]]

\* a deduplication that keeps the last occurrence of every document
remove_duplicates_keep_last(docs) ==
    LET lasts == SelectSeq([i \in 1..Len(docs) |-> i],
                           LAMBDA i : \A j \in (i + 1)..Len(docs) : docs[j] # docs[i])
    IN  [n \in 1..Len(lasts) |-> docs[lasts[n]]]

\* gen_ai.common.common.remove_duplicates: the first occurrence of every
\* document, in first-seen order; two documents are the same when their
\* page_content and metadata are equal
remove_duplicates(docs) ==
    LET firsts == SelectSeq([i \in 1..Len(docs) |-> i],
                            LAMBDA i : \A j \in 1..(i - 1) : docs[j] # docs[i])
    IN  [n \in 1..Len(firsts) |-> docs[firsts[n]]]

(***************************************************************************)
(* Pieces of get_related_docs_from_store.                                  *)
(***************************************************************************)
\* the filter argument of store.similarity_search_with_score(query=..., k=50):
\* the call names no filter, the prepared metadata is not forwarded
SimilarityFilter(prepared) == NoFilter

\* the filter argument of store.max_marginal_relevance_search(query=..., k=1,
\* lambda_mult=0.5): none either
MmrFilter(prepared) == NoFilter

\* a slice one element too long
TopDocumentsOneMore(scored) == [i \in 1..Min(TopN + 1, Len(scored)) |-> scored[i][1]]

\* ss_docs = [x[0] for x in ss_docs[0:20]]
TopDocuments(scored) == [i \in 1..Min(TopN, Len(scored)) |-> scored[i][1]]

\* docs = common.remove_duplicates(ss_docs + mmr_docs)
Fuse(ss, mmr) == remove_duplicates(ss \o mmr)

(***************************************************************************)
(* Pieces of get_multiple_related_docs_from_store.                         *)
(***************************************************************************)
\* a loop that leaves out the first question
QuestionsAfterFirst(qs) == IF qs = <<>> THEN <<>> ELSE Tail(qs)

\* a loop that goes through the questions from the last to the first
QuestionsReversed(qs) == [i \in 1..Len(qs) |-> qs[Len(qs) + 1 - i]]

\* for question in questions_for_search: the questions the loop goes through
QuestionsInOrder(qs) == qs

\* documents = docs in place of documents.extend(docs)
ExtendOverwrites(documents, docs) == docs

\* documents.extend(...)
Extend(documents, docs) == documents \o docs

\* documents = common.remove_duplicates(documents); return documents
MultiResult(documents) == remove_duplicates(documents)

(***************************************************************************)
(* get_related_docs_from_store_uhg, from its entry to the first retrieval: *)
(* the scopes it retrieves for, in order; direct when the retrieval's      *)
(* result is returned as it is.                                            *)
(***************************************************************************)
\* if metadata is None or "set_number" not in metadata, without the key test
UsesDefaultPartitionNoneOnly(h, r) == r = None

\* if metadata is None or "set_number" not in metadata
UsesDefaultPartition(h, r) == r = None \/ "set_number" \notin DictKeys(h[r])

\* custom_metadata = {"data_source": "kc"}
CustomMetadata == PlainDict([k \in {"data_source"} |-> "kc"])

\* the two scopes in the other order
MetadataListSwapped(b360_metadata, kc_metadata) == <<kc_metadata, b360_metadata>>

\* metadatas = [b360_metadata, kc_metadata]
MetadataList(b360_metadata, kc_metadata) == <<b360_metadata, kc_metadata>>

UhgScopes(h, r) ==
    IF UsesDefaultPartition(h, r)
    THEN LET custom_metadata == Alloc(h, CustomMetadata)
         IN  [heap |-> custom_metadata.heap, metadatas |-> <<custom_metadata.ref>>,
              direct |-> TRUE]
    ELSE LET b360_copy == DeepCopy(h, r)
             b360_heap == [b360_copy.heap EXCEPT
                              ![b360_copy.ref] = DictSet(@, "data_source", "b360")]
             kc_copy == DeepCopy(b360_heap, r)
             kc_tagged == [kc_copy.heap EXCEPT
                              ![kc_copy.ref] = DictSet(@, "data_source", "kc")]
             kc_heap == IF "set_number" \in DictKeys(kc_tagged[kc_copy.ref])
                        THEN [kc_tagged EXCEPT
                                 ![kc_copy.ref] = DictDel(@, "set_number")]
                        ELSE kc_tagged
         IN  [heap |-> kc_heap,
              metadatas |-> MetadataList(b360_copy.ref, kc_copy.ref),
              direct |-> FALSE]

\* return docs (the retrievals' lists, extended one after the other)
UhgResult(docs) == docs

(***************************************************************************)
(* State.  Every variable but store and calls is a function of the         *)
(* request process.                                                        *)
(***************************************************************************)
VARIABLES
    store,      \* the state of the Chroma store
    pc,         \* "idle", "ss" (before the similarity search), "mmr" (before
                \* the diversity search), "done" (returned), "failed" (raised)
    frame,      \* the entry point called: "single", "multi", "uhg_direct"
                \* (routed, one scope), "uhg_loop" (routed, two scopes)
    questions,  \* questions_for_search, a sequence (one element unless multi)
    qi,         \* the place of the current question in questions
    scopeRef,   \* the metadata argument of the entry point: a reference or None
    given,      \* the caller's scope as it was when the call was made
    heap,       \* the dict objects of the request; heap[1] is the caller's scope
    metadatas,  \* routed: the references of the derived scopes
    mi,         \* routed: the place of the current scope in metadatas
    metadata,   \* get_related_docs_from_store: the reference of its local
                \* metadata after the filter is prepared
    ss_docs,    \* get_related_docs_from_store: the truncated similarity hits
    documents,  \* the accumulation list of the multi-query and routed loops
    parts,      \* the list each finished single-query retrieval returned
    result,     \* the list returned to the caller
    calls,      \* the calls made to the store, in order
    dedupInput, \* remove_duplicates on its own: the list first handed to it
    dedupOut,   \* dedupOut[n] is the list after n applications
    provided,   \* the last call of DocumentRetrieverProvider: the name asked
                \* for, the retriever returned, the exception raised
    mode,       \* run_pipeline: its mode argument
    df,         \* run_pipeline: the rows of the input CSV
    personalization,    \* Container.config.get("personalization")
    row_i,      \* run_pipeline: the place of the current row in df
    personalized_data,  \* run_pipeline: its local variable of that name
    pipeline_pc,        \* "idle", "row" (at the top of the batch loop), "llm"
                \* (in run_single_prediction, llm.respond_api called), "done"
                \* (returned), "failed" (raised)
    pipeline_error,     \* the class of the exception run_pipeline raised
    asked,      \* the calls of run_single_prediction: question and context
    predictions,        \* what each finished call met and returned
    datasets,   \* BigQuery: the datasets that exist
    tables,     \* BigQuery: the tables that exist, as <<dataset, table>>
    bq_call     \* the last call of create_dataset or create_table

\* the variables of the retrieval requests
requestVars == <<pc, frame, questions, qi, scopeRef, given, heap, metadatas, mi,
                 metadata, ss_docs, documents, parts, result, calls>>

dedupVars == <<dedupInput, dedupOut>>

\* the variables no retrieval request touches
pipelineVars == <<mode, df, personalization, row_i, personalized_data, pipeline_pc,
                  pipeline_error, asked, predictions>>

bqVars == <<datasets, tables, bq_call>>

outside == <<dedupVars, provided, pipelineVars, bqVars>>

vars == <<store, requestVars, outside>>

\* a call made to the store: its arguments, the request that made it, the
\* prepared metadata of the retrieval that made it, and whether it raised
StoreCall(p, op, query, k, lambda_mult, filter, prepared) ==
    [proc |-> p, op |-> op, query |-> query, k |-> k, lambda_mult |-> lambda_mult,
     filter |-> filter, prepared |-> prepared, raised |-> FALSE]

\* no request is running
RequestsIdle ==
    /\ pc = [p \in Procs |-> "idle"]
    /\ frame = [p \in Procs |-> "none"]
    /\ questions = [p \in Procs |-> <<>>]
    /\ qi = [p \in Procs |-> 0]
    /\ scopeRef = [p \in Procs |-> None]
    /\ given = [p \in Procs |-> NoFilter]
    /\ heap = [p \in Procs |-> <<>>]
    /\ metadatas = [p \in Procs |-> <<>>]
    /\ mi = [p \in Procs |-> 0]
    /\ metadata = [p \in Procs |-> None]
    /\ ss_docs = [p \in Procs |-> <<>>]
    /\ documents = [p \in Procs |-> <<>>]
    /\ parts = [p \in Procs |-> <<>>]
    /\ result = [p \in Procs |-> <<>>]
    /\ calls = <<>>

\* remove_duplicates was handed nothing
DedupIdle ==
    /\ dedupInput = <<>>
    /\ dedupOut = <<>>

\* what a call of the provider left: name is the argument, retriever the
\* class of the object returned, error the class of the exception raised
ProviderOutcome(name, retriever, error) ==
    [name |-> name, retriever |-> retriever, error |-> error]

\* the provider was not called
ProviderIdle == provided = ProviderOutcome("", "none", "none")

\* a local variable that was not assigned
Unbound == [kind |-> "unbound"]

\* Python's None as a value
PyNone == [kind |-> "None"]

\* the dict {"set_number": v}
SetNumberDict(v) == [kind |-> "dict", set_number |-> v]

\* run_pipeline is not running
PipelineIdle ==
    /\ mode = "none"
    /\ df = <<>>
    /\ personalization = FALSE
    /\ row_i = 0
    /\ personalized_data = Unbound
    /\ pipeline_pc = "idle"
    /\ pipeline_error = "none"
    /\ asked = <<>>
    /\ predictions = <<>>

\* no call of create_dataset or create_table yet
NoBqCall == [op |-> "none"]

BqIdle ==
    /\ datasets = {}
    /\ tables = {}
    /\ bq_call = NoBqCall

OutsideIdle == DedupIdle /\ ProviderIdle /\ PipelineIdle /\ BqIdle

Init ==
    /\ store \in StoreStates
    /\ RequestsIdle
    /\ OutsideIdle

\* the arguments a caller may pass as metadata: a scope or None
ScopeArgs == Scopes \cup {NoFilter}

Batches == UNION {[1..n -> Queries] : n \in 0..MaxBatch}

\* the caller's heap and the reference it passes for scope argument a
CallerHeap(a) == IF a = NoFilter THEN <<>> ELSE <<a>>
CallerRef(a) == IF a = NoFilter THEN None ELSE 1

\* the entry of get_related_docs_from_store(store, question, metadata) for the
\* metadata at reference r: the filter is prepared, the similarity search is next
EnterRetrieve(p, h, r) ==
    LET prepared == PrepareFilter(h, r)
    IN  /\ heap' = [heap EXCEPT ![p] = prepared.heap]
        /\ metadata' = [metadata EXCEPT ![p] = prepared.ref]
        /\ ss_docs' = [ss_docs EXCEPT ![p] = <<>>]
        /\ pc' = [pc EXCEPT ![p] = "ss"]

\* the question the retrieval in progress is for
CurrentQuestion(p) ==
    IF frame[p] = "multi" THEN QuestionsInOrder(questions[p])[qi[p]]
    ELSE questions[p][1]

\* one accumulation list shared by every call
SharedBuffer(p) == MainProc

\* documents = [] (line 82), docs = [] (line 159): the accumulation list is
\* a local of the call, each request has its own
OwnBuffer(p) == p

\* the caller's side of a call: the arguments are recorded
Invoke(p, fr, qs, a) ==
    /\ pc[p] = "idle"
    /\ frame' = [frame EXCEPT ![p] = fr]
    /\ questions' = [questions EXCEPT ![p] = qs]
    /\ scopeRef' = [scopeRef EXCEPT ![p] = CallerRef(a)]
    /\ given' = [given EXCEPT ![p] = a]
    /\ documents' = [documents EXCEPT ![OwnBuffer(p)] = <<>>]
    /\ parts' = [parts EXCEPT ![p] = <<>>]
    /\ result' = [result EXCEPT ![p] = <<>>]

\* get_related_docs_from_store(store, q, a) is called
CallSingle(p, q, a) ==
    /\ Invoke(p, "single", <<q>>, a)
    /\ qi' = [qi EXCEPT ![p] = 1]
    /\ EnterRetrieve(p, CallerHeap(a), CallerRef(a))
    /\ UNCHANGED <<store, metadatas, mi, calls, outside>>

\* get_multiple_related_docs_from_store(store, qs, a) is called
CallMultiple(p, qs, a) ==
    /\ Invoke(p, "multi", qs, a)
    /\ IF QuestionsInOrder(qs) = <<>>
       THEN /\ pc' = [pc EXCEPT ![p] = "done"]
            /\ result' = [result EXCEPT ![p] = MultiResult(<<>>)]
            /\ heap' = [heap EXCEPT ![p] = CallerHeap(a)]
            /\ qi' = [qi EXCEPT ![p] = 0]
            /\ UNCHANGED <<metadata, ss_docs>>
       ELSE /\ qi' = [qi EXCEPT ![p] = 1]
            /\ EnterRetrieve(p, CallerHeap(a), CallerRef(a))
    /\ UNCHANGED <<store, metadatas, mi, calls, outside>>

\* get_related_docs_from_store_uhg(store, q, a) is called
CallUhg(p, q, a) ==
    LET routed == UhgScopes(CallerHeap(a), CallerRef(a))
    IN  /\ Invoke(p, IF routed.direct THEN "uhg_direct" ELSE "uhg_loop", <<q>>, a)
        /\ qi' = [qi EXCEPT ![p] = 1]
        /\ metadatas' = [metadatas EXCEPT ![p] = routed.metadatas]
        /\ mi' = [mi EXCEPT ![p] = 1]
        /\ EnterRetrieve(p, routed.heap, routed.metadatas[1])
        /\ UNCHANGED <<store, calls, outside>>

\* the similarity search returns: ss_docs is truncated, the diversity search
\* is next
SimilaritySearch(p) ==
    /\ pc[p] = "ss"
    /\ LET query == CurrentQuestion(p)
           filter == SimilarityFilter(heap[p][metadata[p]])
           scored == similarity_search_with_score(store, query, K_SS, filter)
       IN  /\ calls' = Append(calls, StoreCall(p, "similarity_search_with_score",
                                  query, K_SS, "unset", filter, heap[p][metadata[p]]))
           /\ ss_docs' = [ss_docs EXCEPT ![p] = TopDocuments(scored)]
    /\ pc' = [pc EXCEPT ![p] = "mmr"]
    /\ UNCHANGED <<store, frame, questions, qi, scopeRef, given, heap, metadatas,
                   mi, metadata, documents, parts, result, outside>>

\* an except clause that returns what was gathered so far
RaiseReturnsPartial(p, call) ==
    /\ calls' = Append(calls, [call EXCEPT !.raised = TRUE])
    /\ pc' = [pc EXCEPT ![p] = "done"]
    /\ result' = [result EXCEPT ![p] = documents[p]]
    /\ UNCHANGED <<store, frame, questions, qi, scopeRef, given, heap, metadatas,
                   mi, metadata, ss_docs, documents, parts, outside>>

\* a store call raises: nothing catches it, the request fails
Raise(p, call) ==
    /\ calls' = Append(calls, [call EXCEPT !.raised = TRUE])
    /\ pc' = [pc EXCEPT ![p] = "failed"]
    /\ UNCHANGED <<store, frame, questions, qi, scopeRef, given, heap, metadatas,
                   mi, metadata, ss_docs, documents, parts, result, outside>>

SimilaritySearchFails(p) ==
    /\ pc[p] = "ss"
    /\ Raise(p, StoreCall(p, "similarity_search_with_score", CurrentQuestion(p),
                          K_SS, "unset", SimilarityFilter(heap[p][metadata[p]]),
                          heap[p][metadata[p]]))

MmrSearchFails(p) ==
    /\ pc[p] = "mmr"
    /\ Raise(p, StoreCall(p, "max_marginal_relevance_search", CurrentQuestion(p),
                          K_MMR, LambdaMult, MmrFilter(heap[p][metadata[p]]),
                          heap[p][metadata[p]]))

\* the diversity search returns: the retrieval returns its fused list to the
\* entry point, which returns it, or extends its list and goes on or returns
MmrSearch(p) ==
    /\ pc[p] = "mmr"
    /\ LET query == CurrentQuestion(p)
           filter == MmrFilter(heap[p][metadata[p]])
           mmr_docs == max_marginal_relevance_search(store, query, K_MMR, filter)
           docs == Fuse(ss_docs[p], mmr_docs)
           looping == frame[p] \in {"multi", "uhg_loop"}
           buffer == OwnBuffer(p)
           extended == IF looping THEN Extend(documents[buffer], docs)
                       ELSE documents[buffer]
           more == \/ frame[p] = "multi" /\ qi[p] < Len(QuestionsInOrder(questions[p]))
                   \/ frame[p] = "uhg_loop" /\ mi[p] < Len(metadatas[p])
       IN  /\ calls' = Append(calls, StoreCall(p, "max_marginal_relevance_search",
                                  query, K_MMR, LambdaMult, filter,
                                  heap[p][metadata[p]]))
           /\ documents' = [documents EXCEPT ![buffer] = extended]
           /\ parts' = [parts EXCEPT ![p] = Append(@, docs)]
           /\ IF more
              THEN /\ qi' = [qi EXCEPT ![p] = IF frame[p] = "multi" THEN @ + 1 ELSE @]
                   /\ mi' = [mi EXCEPT ![p] = IF frame[p] = "uhg_loop" THEN @ + 1 ELSE @]
                   /\ EnterRetrieve(p, heap[p],
                                    IF frame[p] = "multi" THEN scopeRef[p]
                                    ELSE metadatas[p][mi[p] + 1])
                   /\ UNCHANGED result
              ELSE /\ pc' = [pc EXCEPT ![p] = "done"]
                   /\ result' = [result EXCEPT ![p] =
                                    CASE frame[p] = "multi" -> MultiResult(extended)
                                      [] frame[p] = "uhg_loop" -> UhgResult(extended)
                                      [] OTHER -> docs]
                   /\ UNCHANGED <<qi, mi, heap, metadata, ss_docs>>
    /\ UNCHANGED <<store, frame, questions, scopeRef, given, metadatas, outside>>

\* the caller takes the list or the exception; the request's objects are gone
Return(p) ==
    /\ pc[p] \in {"done", "failed"}
    /\ pc' = [pc EXCEPT ![p] = "idle"]
    /\ frame' = [frame EXCEPT ![p] = "none"]
    /\ questions' = [questions EXCEPT ![p] = <<>>]
    /\ qi' = [qi EXCEPT ![p] = 0]
    /\ scopeRef' = [scopeRef EXCEPT ![p] = None]
    /\ given' = [given EXCEPT ![p] = NoFilter]
    /\ heap' = [heap EXCEPT ![p] = <<>>]
    /\ metadatas' = [metadatas EXCEPT ![p] = <<>>]
    /\ mi' = [mi EXCEPT ![p] = 0]
    /\ metadata' = [metadata EXCEPT ![p] = None]
    /\ ss_docs' = [ss_docs EXCEPT ![p] = <<>>]
    /\ documents' = [documents EXCEPT ![p] = <<>>]
    /\ parts' = [parts EXCEPT ![p] = <<>>]
    /\ result' = [result EXCEPT ![p] = <<>>]
    /\ calls' = SelectSeq(calls, LAMBDA c : c.proc # p)
    /\ UNCHANGED <<store, outside>>

(***************************************************************************)
(* One caller making one request after the other.                          *)
(***************************************************************************)
Next ==
    \/ /\ pc[MainProc] = "idle"
       /\ \E q \in Queries, a \in ScopeArgs : CallSingle(MainProc, q, a)
    \/ /\ pc[MainProc] = "idle"
       /\ \E qs \in Batches, a \in ScopeArgs : CallMultiple(MainProc, qs, a)
    \/ /\ pc[MainProc] = "idle"
       /\ \E q \in Queries, a \in ScopeArgs : CallUhg(MainProc, q, a)
    \/ SimilaritySearch(MainProc)
    \/ SimilaritySearchFails(MainProc)
    \/ MmrSearch(MainProc)
    \/ MmrSearchFails(MainProc)
    \/ Return(MainProc)

Spec == Init /\ [][Next]_vars

(***************************************************************************)
(* The same caller against the stores that hold more entries than the      *)
(* truncation length: what is looked at is the calls a request makes, not  *)
(* the documents it gets.                                                  *)
(***************************************************************************)
CallStores == {s \in StoreStates : s.size = TopN + MaxExtra /\ s.shift = TopN}

InitCalls ==
    /\ store \in CallStores
    /\ RequestsIdle
    /\ OutsideIdle

SpecCalls == InitCalls /\ [][Next]_vars

(***************************************************************************)
(* The same query and scope retrieved twice against one store state: by a  *)
(* single-query retrieval (MainProc) and by a multi-query retrieval of the *)
(* one-element batch (PeerProc), their store calls interleaved in any      *)
(* order.  Both lists are held until both requests have ended.             *)
(***************************************************************************)
NextPair ==
    \/ /\ pc[PeerProc] = "idle" /\ pc[MainProc] = "idle"
       /\ \E q \in Queries, a \in ScopeArgs : CallSingle(MainProc, q, a)
    \/ /\ pc[MainProc] # "idle"
       /\ CallMultiple(PeerProc, <<questions[MainProc][1]>>, given[MainProc])
    \/ \E p \in Procs : SimilaritySearch(p)
    \/ \E p \in Procs : SimilaritySearchFails(p)
    \/ \E p \in Procs : MmrSearch(p)
    \/ \E p \in Procs : MmrSearchFails(p)
    \/ pc[PeerProc] \in {"done", "failed"} /\ Return(MainProc)
    \/ pc[MainProc] = "idle" /\ Return(PeerProc)

SpecPair == Init /\ [][NextPair]_vars

(***************************************************************************)
(* Two callers, each making one request after the other with any entry     *)
(* point, against one store; their store calls interleave in any order.    *)
(***************************************************************************)
\* a store with more entries than the truncation length, no two equal, the
\* diversity search answering from past the truncation: the lists of two
\* different queries differ
ConcStores ==
    {s \in StoreStates : /\ s.size = TopN + MaxExtra /\ s.shift = TopN
                         /\ s.period = K_SS + 1}

\* two different queries
ConcQueries == {1, NumQueries}

\* a scope the router fans out and a scope it does not
ConcScopes ==
    {PlainDict([member_id |-> "m1", set_number |-> "abc"]),
     PlainDict([data_source |-> "b360", topic |-> "claims"])}

ConcBatches == UNION {[1..n -> ConcQueries] : n \in 0..MaxConcBatch}

InitConc ==
    /\ store \in ConcStores
    /\ RequestsIdle
    /\ OutsideIdle

NextConc ==
    \/ \E p \in Procs :
           /\ pc[p] = "idle"
           /\ \E q \in ConcQueries, a \in ConcScopes : CallSingle(p, q, a)
    \/ \E p \in Procs :
           /\ pc[p] = "idle"
           /\ \E qs \in ConcBatches, a \in ConcScopes : CallMultiple(p, qs, a)
    \/ \E p \in Procs :
           /\ pc[p] = "idle"
           /\ \E q \in ConcQueries, a \in ConcScopes : CallUhg(p, q, a)
    \/ \E p \in Procs : SimilaritySearch(p)
    \/ \E p \in Procs : SimilaritySearchFails(p)
    \/ \E p \in Procs : MmrSearch(p)
    \/ \E p \in Procs : MmrSearchFails(p)
    \/ \E p \in Procs : Return(p)

SpecConc == InitConc /\ [][NextConc]_vars

(***************************************************************************)
(* remove_duplicates on its own: handed any short list of documents, then  *)
(* handed its own output.                                                  *)
(***************************************************************************)
\* a store state without entries
EmptyStore == [size |-> 0, period |-> 1, shift |-> 0]

\* documents that differ in page_content, in metadata, or in both
DedupDocuments ==
    [page_content : 0..MaxDedupContent, metadata : [data_source : {"b360", "kc"}]]

DedupInputs == UNION {[1..n -> DedupDocuments] : n \in 0..MaxDedupLen}

InitDedup ==
    /\ store = EmptyStore
    /\ RequestsIdle
    /\ dedupInput \in DedupInputs
    /\ dedupOut = <<>>
    /\ ProviderIdle /\ PipelineIdle /\ BqIdle

\* common.remove_duplicates(docs), docs being the input or the last output
RemoveDuplicates ==
    /\ Len(dedupOut) < MaxDedupPasses
    /\ LET docs == IF dedupOut = <<>> THEN dedupInput ELSE dedupOut[Len(dedupOut)]
       IN  dedupOut' = Append(dedupOut, remove_duplicates(docs))
    /\ UNCHANGED <<store, requestVars, dedupInput, provided, pipelineVars, bqVars>>

NextDedup == RemoveDuplicates

SpecDedup == InitDedup /\ [][NextDedup]_vars

(***************************************************************************)
(* DocumentRetrieverProvider: a caller asks for a retriever by name and,   *)
(* when it got one, retrieves with it.                                     *)
(***************************************************************************)
RetrieverNames == {"semantic", "Semantic", "semantic_v2", "keyword", ""}

\* raise ValueError(...) replaced by a default retriever
DocumentRetrieverProvider_default(name) ==
    ProviderOutcome(name, "SemanticDocumentRetriever", "none")

\* DocumentRetrieverProvider.__call__(name)
DocumentRetrieverProvider(name) ==
    IF name = "semantic"
    THEN ProviderOutcome(name, "SemanticDocumentRetriever", "none")
    ELSE ProviderOutcome(name, "none", "ValueError")

\* retriever = DocumentRetrieverProvider()(name)
Provide(name) ==
    /\ pc[MainProc] = "idle"
    /\ provided' = DocumentRetrieverProvider(name)
    /\ UNCHANGED <<store, requestVars, dedupVars, pipelineVars, bqVars>>

NextProvider ==
    \/ \E name \in RetrieverNames : Provide(name)
    \/ /\ pc[MainProc] = "idle"
       /\ provided.retriever = "SemanticDocumentRetriever"
       /\ \E q \in Queries, a \in ScopeArgs : CallSingle(MainProc, q, a)
    \/ SimilaritySearch(MainProc)
    \/ SimilaritySearchFails(MainProc)
    \/ MmrSearch(MainProc)
    \/ MmrSearchFails(MainProc)
    \/ Return(MainProc)

SpecProvider == Init /\ [][NextProvider]_vars

(***************************************************************************)
(* gen_ai/check_pipeline.py: run_pipeline and run_single_prediction.  The  *)
(* language model is outside the program: a call of llm.respond_api        *)
(* returns a conversation of any number of exchanges, or raises.           *)
(***************************************************************************)
Fallback == "I apologize, but no answer is available at this time."

StepQuestion == "What has EQT management said about optimal capital structure"

Modes == {"batch", "step", "interactive", ""}

PipelineQuestions == {"q1", "q2"}

SetNumbers == {"A1", "b2"}

\* str.lower()
Lower(v) == IF v = "A1" THEN "a1" ELSE v

\* the rows of a CSV: every row has a question; the column set_number is in
\* every row or in none
DataFrames ==
    (UNION {[1..n -> [question : PipelineQuestions, set_number : SetNumbers]] :
                n \in 0..MaxRows})
        \cup (UNION {[1..n -> [question : PipelineQuestions]] : n \in 0..MaxRows})

Answers == {"a1", "a2"}

\* classes of exceptions llm.respond_api raises, subclasses of Exception
LlmErrors == {"RuntimeError"}

Exchanges == UNION {[1..n -> Answers] : n \in 0..MaxExchanges}

\* what a call of llm.respond_api does: raises error, or returns a
\* conversation with these exchanges (their answers)
LlmOutcome(error, exchanges) == [error |-> error, exchanges |-> exchanges]

\* what a call of run_single_prediction does: returns answer having logged
\* an exception of class logged, or raises an exception of class raised
Prediction(answer, logged, raised) ==
    [answer |-> answer, logged |-> logged, raised |-> raised]

\* the return statement after the try block: reading the answer not guarded
run_single_prediction_unguarded(outcome) ==
    IF outcome.error # "none" THEN Prediction(Fallback, outcome.error, "none")
    ELSE IF outcome.exchanges = <<>> THEN Prediction("none", "none", "IndexError")
    ELSE Prediction(outcome.exchanges[Len(outcome.exchanges)], "none", "none")

\* run_single_prediction(question, member_context_full), given what the
\* call of llm.respond_api does
run_single_prediction(outcome) ==
    IF outcome.error # "none" THEN Prediction(Fallback, outcome.error, "none")
    ELSE IF outcome.exchanges = <<>> THEN Prediction(Fallback, "IndexError", "none")
    ELSE Prediction(outcome.exchanges[Len(outcome.exchanges)], "none", "none")

\* get_default_personalized_info(row)
get_default_personalized_info(row) ==
    IF "set_number" \in DOMAIN row THEN SetNumberDict(Lower(row.set_number))
    ELSE PyNone

\* a call of run_single_prediction(question, context) begins
Ask(question, context) ==
    /\ asked' = Append(asked, [question |-> question, context |-> context])
    /\ pipeline_pc' = "llm"

\* run_pipeline(mode, ...) is called: what every mode does first
EnterPipeline(m, d, pers) ==
    /\ pipeline_pc = "idle"
    /\ mode' = m
    /\ df' = d
    /\ personalization' = pers
    /\ UNCHANGED <<store, requestVars, dedupVars, provided, bqVars, personalized_data,
                   predictions>>

\* run_pipeline("batch", csv_path): the CSV is read, the loop begins
RunBatch(d, pers) ==
    /\ EnterPipeline("batch", d, pers)
    /\ row_i' = IF d = <<>> THEN 0 ELSE 1
    /\ pipeline_pc' = IF d = <<>> THEN "done" ELSE "row"
    /\ UNCHANGED <<asked, pipeline_error>>

\* run_pipeline("step"): the one fixed question is asked
RunStep(pers) ==
    /\ EnterPipeline("step", <<>>, pers)
    /\ Ask(StepQuestion, SetNumberDict(""))
    /\ UNCHANGED <<row_i, pipeline_error>>

\* run_pipeline(m) for any other mode
RunOtherMode(m, pers) ==
    /\ m \notin {"batch", "step"}
    /\ EnterPipeline(m, <<>>, pers)
    /\ pipeline_pc' = "failed"
    /\ pipeline_error' = "ValueError"
    /\ UNCHANGED <<row_i, asked>>

\* one turn of the batch loop up to the call of run_single_prediction:
\* personalized_data is assigned only when personalization is configured,
\* and read in either case
BatchRow ==
    /\ pipeline_pc = "row"
    /\ LET row == df[row_i]
           data == IF personalization THEN get_default_personalized_info(row)
                   ELSE personalized_data
       IN  /\ personalized_data' = data
           /\ IF data = Unbound
              THEN /\ pipeline_pc' = "failed"
                   /\ pipeline_error' = "UnboundLocalError"
                   /\ UNCHANGED asked
              ELSE /\ Ask(row.question, data)
                   /\ UNCHANGED pipeline_error
    /\ UNCHANGED <<store, requestVars, dedupVars, provided, bqVars, mode, df,
                   personalization, row_i, predictions>>

\* llm.respond_api ends with outcome; run_single_prediction returns or
\* raises; run_pipeline goes on to the next row, returns or raises
Respond(outcome) ==
    /\ pipeline_pc = "llm"
    /\ LET r == run_single_prediction(outcome)
       IN  /\ predictions' = Append(predictions,
                                    [outcome |-> outcome, answer |-> r.answer,
                                     logged |-> r.logged, raised |-> r.raised])
           /\ IF r.raised # "none"
              THEN /\ pipeline_pc' = "failed"
                   /\ pipeline_error' = r.raised
                   /\ UNCHANGED row_i
              ELSE /\ UNCHANGED pipeline_error
                   /\ IF mode = "batch" /\ row_i < Len(df)
                      THEN row_i' = row_i + 1 /\ pipeline_pc' = "row"
                      ELSE UNCHANGED row_i /\ pipeline_pc' = "done"
    /\ UNCHANGED <<store, requestVars, dedupVars, provided, bqVars, mode, df,
                   personalization, personalized_data, asked>>

LlmReturns == \E exchanges \in Exchanges : Respond(LlmOutcome("none", exchanges))

LlmRaises == \E error \in LlmErrors : Respond(LlmOutcome(error, <<>>))

\* the process ends; the next run starts afresh
PipelineExit ==
    /\ pipeline_pc \in {"done", "failed"}
    /\ mode' = "none"
    /\ df' = <<>>
    /\ personalization' = FALSE
    /\ row_i' = 0
    /\ personalized_data' = Unbound
    /\ pipeline_pc' = "idle"
    /\ pipeline_error' = "none"
    /\ asked' = <<>>
    /\ predictions' = <<>>
    /\ UNCHANGED <<store, requestVars, dedupVars, provided, bqVars>>

InitPipeline ==
    /\ store = EmptyStore
    /\ RequestsIdle
    /\ OutsideIdle

NextPipeline ==
    \/ \E d \in DataFrames, pers \in BOOLEAN : RunBatch(d, pers)
    \/ \E pers \in BOOLEAN : RunStep(pers)
    \/ \E m \in Modes, pers \in BOOLEAN : RunOtherMode(m, pers)
    \/ BatchRow
    \/ LlmReturns
    \/ LlmRaises
    \/ PipelineExit

SpecPipeline == InitPipeline /\ [][NextPipeline]_vars

(***************************************************************************)
(* gen_ai/common/bq_utils.py: create_dataset and create_table.  BigQuery   *)
(* is a set of datasets and a set of tables, each table in a dataset.      *)
(***************************************************************************)
DatasetIds == {"d1", "d2"}

TableIds == DatasetIds \X {"t1", "t2"}

\* what a call left: the state of BigQuery, the client calls made in order,
\* and the class of the exception that came out of the function
BqResult(ds, ts, api, error) ==
    [datasets |-> ds, tables |-> ts, api |-> api, error |-> error]

\* create_dataset(client, dataset_id, location, recreate_dataset)
create_dataset(ds, ts, dataset_id, recreate_dataset) ==
    LET ds1 == IF recreate_dataset THEN ds \ {dataset_id} ELSE ds
        ts1 == IF recreate_dataset THEN {t \in ts : t[1] # dataset_id} ELSE ts
        api1 == IF recreate_dataset THEN <<"delete_dataset">> ELSE <<>>
    IN  IF dataset_id \in ds1
        THEN BqResult(ds1, ts1, Append(api1, "get_dataset"), "none")
        ELSE BqResult(ds1 \cup {dataset_id}, ts1,
                      api1 \o <<"get_dataset", "create_dataset">>, "none")

\* create_table(client, table_id, schema, recreate_table); get_table and
\* create_table raise NotFound when the dataset of the table does not exist
create_table(ds, ts, table_id, recreate_table) ==
    LET found == table_id \in ts
        ts1 == IF recreate_table /\ found THEN ts \ {table_id} ELSE ts
        api1 == IF ~recreate_table THEN <<>>
                ELSE IF found THEN <<"get_table", "delete_table">>
                ELSE <<"get_table">>
    IN  IF table_id \in ts1
        THEN BqResult(ds, ts1, Append(api1, "get_table"), "none")
        ELSE IF table_id[1] \in ds
        THEN BqResult(ds, ts1 \cup {table_id},
                      api1 \o <<"get_table", "create_table">>, "none")
        ELSE BqResult(ds, ts1, api1 \o <<"get_table", "create_table">>, "NotFound")

\* a call ends: BigQuery is as the call left it, the call is recorded with
\* whether its target existed when it began
BqCall(op, target, recreate, existed, r) ==
    /\ datasets' = r.datasets
    /\ tables' = r.tables
    /\ bq_call' = [op |-> op, target |-> target, recreate |-> recreate,
                   existed |-> existed, api |-> r.api, error |-> r.error]
    /\ UNCHANGED <<store, requestVars, dedupVars, provided, pipelineVars>>

CreateDataset(dataset_id, recreate_dataset) ==
    BqCall("create_dataset", dataset_id, recreate_dataset, dataset_id \in datasets,
           create_dataset(datasets, tables, dataset_id, recreate_dataset))

CreateTable(table_id, recreate_table) ==
    BqCall("create_table", table_id, recreate_table, table_id \in tables,
           create_table(datasets, tables, table_id, recreate_table))

\* BigQuery holds any datasets and any tables in them
InitBq ==
    /\ store = EmptyStore
    /\ RequestsIdle
    /\ DedupIdle /\ ProviderIdle /\ PipelineIdle
    /\ datasets \in SUBSET DatasetIds
    /\ tables \in SUBSET {t \in TableIds : t[1] \in datasets}
    /\ bq_call = NoBqCall

NextBq ==
    \/ \E dataset_id \in DatasetIds, recreate \in BOOLEAN :
           CreateDataset(dataset_id, recreate)
    \/ \E table_id \in TableIds, recreate \in BOOLEAN : CreateTable(table_id, recreate)

SpecBq == InitBq /\ [][NextBq]_vars

(***************************************************************************)
(* Vocabulary of the properties.                                           *)
(***************************************************************************)
Range(seq) == {seq[i] : i \in 1..Len(seq)}

NoDuplicates(seq) == \A i, j \in 1..Len(seq) : seq[i] = seq[j] => i = j

\* the first place of document d in seq
FirstIndex(seq, d) == CHOOSE i \in 1..Len(seq) :
                          seq[i] = d /\ \A j \in 1..(i - 1) : seq[j] # d

\* out is input without its repeats: every document of input once, in the
\* order of the first occurrences
IsFirstSeen(out, input) ==
    /\ NoDuplicates(out)
    /\ Range(out) = Range(input)
    /\ \A i \in 1..(Len(out) - 1) :
           FirstIndex(input, out[i]) < FirstIndex(input, out[i + 1])

\* seqs[1] \o seqs[2] \o ...
Concat(seqs) ==
    LET upto[i \in 0..Len(seqs)] == IF i = 0 THEN <<>> ELSE upto[i - 1] \o seqs[i]
    IN  upto[Len(seqs)]

CallsOf(p) == SelectSeq(calls, LAMBDA c : c.proc = p)

SimilarityCalls(p) ==
    SelectSeq(calls, LAMBDA c : c.proc = p /\ c.op = "similarity_search_with_score")

MmrCalls(p) ==
    SelectSeq(calls, LAMBDA c : c.proc = p /\ c.op = "max_marginal_relevance_search")

Routed(p) == frame[p] \in {"uhg_direct", "uhg_loop"}

HasKey(obj, key) == key \in DictKeys(obj)

Tagged(obj, tag) == HasKey(obj, "data_source") /\ obj.kv["data_source"] = tag

C3_FiltersReachStore ==
    \A p \in Procs :
        (Routed(p) /\ pc[p] = "done") =>
            LET sims == SimilarityCalls(p)
            IN  /\ given[p] = PlainDict(EmptyDict) =>
                       /\ Len(sims) = 1
                       /\ sims[1].filter.kv = [k \in {"data_source"} |-> "kc"]
                /\ given[p] = PlainDict([k \in {"set_number"} |-> "abc"]) =>
                       /\ Len(sims) = 2
                       /\ sims[1].filter.kv =
                              [set_number |-> "abc", data_source |-> "b360"]
                       /\ sims[2].filter.kv = [k \in {"data_source"} |-> "kc"]

(***************************************************************************)
(* C4: the list a routed retrieval returns holds no two equal documents:   *)
(* it is the two retrievals' lists, one after the other, without repeats.  *)
(***************************************************************************)
C4_RoutedNoDuplicates ==
    \A p \in Procs :
        (Routed(p) /\ pc[p] = "done") =>
            /\ NoDuplicates(result[p])
            /\ IsFirstSeen(result[p], Concat(parts[p]))

(***************************************************************************)
(* C5: when the caller's scope holds "member_id", no call to the store, by *)
(* a single-query, multi-query or routed retrieval, gets a filter that     *)
(* holds "member_id", and the filter prepared for the call holds none.     *)
(***************************************************************************)
C5_MemberIdNeverForwarded ==
    \A i \in 1..Len(calls) :
        HasKey(given[calls[i].proc], "member_id") =>
            /\ ~HasKey(calls[i].filter, "member_id")
            /\ ~HasKey(calls[i].prepared, "member_id")

C5_Witness ==
    /\ pc[MainProc] = "done" /\ frame[MainProc] = "uhg_loop"
    /\ HasKey(given[MainProc], "member_id")
    /\ Len(CallsOf(MainProc)) = 4
    /\ HasKey(CallsOf(MainProc)[1].prepared, "set_number")

(***************************************************************************)
(* C6: the caller's scope is never changed: during and after a             *)
(* single-query, multi-query or routed retrieval, returned or failed, the  *)
(* scope object holds the keys and values it held when the call was made.  *)
(***************************************************************************)
C6_ScopeNotMutated ==
    \A p \in Procs :
        scopeRef[p] # None => heap[p][scopeRef[p]] = given[p]

C6_Witness ==
    /\ pc[MainProc] \in {"done", "failed"}
    /\ HasKey(given[MainProc], "member_id")
    /\ HasKey(given[MainProc], "set_number")
    /\ HasKey(given[MainProc], "data_source")
    /\ Len(heap[MainProc]) > 2
    /\ heap[MainProc][scopeRef[MainProc]] = given[MainProc]

(***************************************************************************)
(* C7: in a single-query retrieval whose prepared filter is not empty, the *)
(* similarity search gets the prepared filter as its filter, and the       *)
(* diversity search gets the same filter.                                  *)
(***************************************************************************)
C7_FilterForwarded ==
    \A i \in 1..Len(calls) :
        (frame[calls[i].proc] = "single" /\ DictLen(calls[i].prepared) > 0) =>
            calls[i].filter = calls[i].prepared

(***************************************************************************)
(* C8: a single-query retrieval asks for 50 similarity hits and 1          *)
(* diversity hit and returns the first 20 similarity hits S[0..19] in      *)
(* their ranked order followed by the diversity hit D, without repeats:    *)
(* each document once, at the place of its first occurrence, the diversity *)
(* hit last or dropped when it equals an earlier document, never more than *)
(* 21 documents.                                                           *)
(***************************************************************************)
C8_SingleFusion ==
    \A p \in Procs :
        (frame[p] = "single" /\ pc[p] = "done") =>
            LET sim == SimilarityCalls(p)[1]
                mmr == MmrCalls(p)[1]
                S == similarity_search_with_score(store, sim.query, sim.k, sim.filter)
                D == max_marginal_relevance_search(store, mmr.query, mmr.k, mmr.filter)
                S20 == [i \in 1..Min(20, Len(S)) |-> S[i][1]]
            IN  /\ sim.k = 50 /\ mmr.k = 1
                /\ Len(S) <= 50 /\ Len(D) <= 1
                /\ IsFirstSeen(result[p], S20 \o D)
                /\ result[p] = remove_duplicates(S20 \o D)
                /\ \A i \in 1..Len(result[p]) :
                       i <= Len(remove_duplicates(S20)) =>
                           result[p][i] = remove_duplicates(S20)[i]
                /\ Len(result[p]) <= 21

\* more than 20 similarity hits, all different, and a diversity hit that is
\* one of the first 20: the list returned is the 20 hits
C8_Witness ==
    /\ frame[MainProc] = "single" /\ pc[MainProc] = "done"
    /\ store.size > TopN
    /\ NoDuplicates(ss_docs[MainProc])
    /\ Len(result[MainProc]) = TopN
    /\ result[MainProc] = ss_docs[MainProc]
    /\ Len(MmrCalls(MainProc)) = 1

(***************************************************************************)
(* C9: a multi-query retrieval over the batch q1..qn runs one single-query *)
(* retrieval per query, in the order of the batch and with the same scope, *)
(* and returns their lists, one after the other, without repeats: every    *)
(* document once, in the order of first occurrence over the whole batch.   *)
(* The empty batch returns the empty list and calls the store not at all.  *)
(***************************************************************************)
C9_MultiAggregation ==
    \A p \in Procs :
        (frame[p] = "multi" /\ pc[p] = "done") =>
            LET n == Len(questions[p])
                sims == SimilarityCalls(p)
                mmrs == MmrCalls(p)
                prepared == PrepareFilter(CallerHeap(given[p]), CallerRef(given[p]))
            IN  /\ Len(parts[p]) = n /\ Len(sims) = n /\ Len(mmrs) = n
                /\ \A i \in 1..n :
                       /\ sims[i].query = questions[p][i]
                       /\ mmrs[i].query = questions[p][i]
                       /\ sims[i].prepared = prepared.heap[prepared.ref]
                       /\ parts[p][i] =
                              Fuse(TopDocuments(similarity_search_with_score(
                                       store, questions[p][i], K_SS, sims[i].filter)),
                                   max_marginal_relevance_search(
                                       store, questions[p][i], K_MMR, mmrs[i].filter))
                /\ IsFirstSeen(result[p], Concat(parts[p]))
                /\ result[p] = remove_duplicates(Concat(parts[p]))
                /\ n = 0 => (result[p] = <<>> /\ CallsOf(p) = <<>>)

\* a batch of two different queries whose lists share documents
C9_Witness ==
    /\ frame[MainProc] = "multi" /\ pc[MainProc] = "done"
    /\ Len(questions[MainProc]) = 2
    /\ questions[MainProc][1] # questions[MainProc][2]
    /\ parts[MainProc][1] # parts[MainProc][2]
    /\ Len(result[MainProc]) < Len(Concat(parts[MainProc]))
    /\ Len(result[MainProc]) > Len(parts[MainProc][1])

(***************************************************************************)
(* C10: for one query, one scope and one store state, the multi-query      *)
(* retrieval of the one-element batch returns the list the single-query    *)
(* retrieval returns, document for document.                               *)
(***************************************************************************)
C10_SingletonBatchEqualsSingle ==
    ( /\ pc[MainProc] = "done" /\ frame[MainProc] = "single"
      /\ pc[PeerProc] = "done" /\ frame[PeerProc] = "multi"
      /\ questions[PeerProc] = questions[MainProc]
      /\ given[PeerProc] = given[MainProc] )
        => result[PeerProc] = result[MainProc]

C10_Witness ==
    /\ pc[MainProc] = "done" /\ frame[MainProc] = "single"
    /\ pc[PeerProc] = "done" /\ frame[PeerProc] = "multi"
    /\ questions[PeerProc] = questions[MainProc]
    /\ given[PeerProc] = given[MainProc]
    /\ HasKey(given[MainProc], "set_number")
    /\ Len(result[MainProc]) = TopN + 1
    /\ Len(ss_docs[PeerProc]) = TopN

(***************************************************************************)
(* C11: deduplication is idempotent: remove_duplicates applied to its own  *)
(* output gives that output again.  Documents are the same when both       *)
(* page_content and metadata are equal: the output holds no two equal      *)
(* documents and holds every document of the input, those that differ in   *)
(* metadata only included.                                                 *)
(***************************************************************************)
C11_DedupIdempotent ==
    /\ Len(dedupOut) >= 1 =>
           /\ NoDuplicates(dedupOut[1])
           /\ Range(dedupOut[1]) = Range(dedupInput)
    /\ \A n \in 2..Len(dedupOut) : dedupOut[n] = dedupOut[1]

\* a list with a document three times and two documents that differ in
\* metadata only, deduplicated twice
C11_Witness ==
    /\ Len(dedupOut) = 2
    /\ \E i, j, k \in 1..Len(dedupInput) :
           i < j /\ j < k /\ dedupInput[i] = dedupInput[j] /\ dedupInput[j] = dedupInput[k]
    /\ \E i, j \in 1..Len(dedupOut[2]) :
           /\ dedupOut[2][i].page_content = dedupOut[2][j].page_content
           /\ dedupOut[2][i].metadata # dedupOut[2][j].metadata

(***************************************************************************)
(* C12: deduplication keeps first-seen order: of two different documents   *)
(* the one whose first occurrence in the input is earlier comes earlier in *)
(* the output, every document of the input is in the output exactly once   *)
(* and the output holds nothing else.                                      *)
(***************************************************************************)
C12_DedupFirstSeenOrder ==
    Len(dedupOut) >= 1 =>
        LET out == dedupOut[1]
        IN  /\ \A d \in Range(dedupInput) :
                   Cardinality({i \in 1..Len(out) : out[i] = d}) = 1
            /\ Range(out) \subseteq Range(dedupInput)
            /\ \A d1, d2 \in Range(dedupInput) :
                   (d1 # d2 /\ FirstIndex(dedupInput, d1) < FirstIndex(dedupInput, d2))
                       => FirstIndex(out, d1) < FirstIndex(out, d2)

\* a document repeated after another document came in between
C12_Witness ==
    /\ Len(dedupOut) >= 1
    /\ \E i, j, k \in 1..Len(dedupInput) :
           /\ i < j /\ j < k
           /\ dedupInput[i] = dedupInput[k] /\ dedupInput[i] # dedupInput[j]
    /\ Len(dedupOut[1]) >= 2
    /\ Len(dedupOut[1]) < Len(dedupInput)

(***************************************************************************)
(* C13 as stated: the provider returns a semantic retriever for the name   *)
(* "semantic"; for every other name it returns no retriever and fails with *)
(* UnsupportedRetrieverError.                                              *)
(***************************************************************************)
C13_UnsupportedRetrieverError ==
    provided # ProviderOutcome("", "none", "none") =>
        IF provided.name = "semantic"
        THEN provided.retriever = "SemanticDocumentRetriever" /\ provided.error = "none"
        ELSE provided.retriever = "none" /\ provided.error = "UnsupportedRetrieverError"

(***************************************************************************)
(* C13 amended: the provider returns a semantic retriever for the name     *)
(* "semantic" and only for it; for every other name it returns no          *)
(* retriever and fails with ValueError.                                    *)
(***************************************************************************)
C13_ProviderRaisesValueError ==
    provided # ProviderOutcome("", "none", "none") =>
        IF provided.name = "semantic"
        THEN provided.retriever = "SemanticDocumentRetriever" /\ provided.error = "none"
        ELSE provided.retriever = "none" /\ provided.error = "ValueError"

\* a name that differs from "semantic" in case only was refused
C13_Witness ==
    /\ provided.name = "Semantic"
    /\ provided.error = "ValueError"
    /\ provided.retriever = "none"

(***************************************************************************)
(* C14: retrieval is fail-fast.  A store call that raised is the last call *)
(* its request makes (no retry, no further call); the request ends failed  *)
(* and hands its caller no list, whatever it had gathered; in a routed     *)
(* retrieval a failure in the first ("b360") retrieval means no call is    *)
(* made for the second ("kc") scope.  A request fails only by a call that  *)
(* raised.                                                                 *)
(***************************************************************************)
C14_FailFast ==
    \A p \in Procs :
        LET cs == CallsOf(p)
        IN  /\ \A i \in 1..Len(cs) :
                   cs[i].raised =>
                       /\ i = Len(cs)
                       /\ pc[p] = "failed"
                       /\ result[p] = <<>>
                       /\ (frame[p] = "uhg_loop" /\ Tagged(cs[i].prepared, "b360"))
                              => \A j \in 1..Len(cs) : ~Tagged(cs[j].prepared, "kc")
            /\ pc[p] = "failed" => (cs # <<>> /\ cs[Len(cs)].raised)

\* a routed retrieval over two scopes whose first retrieval's diversity
\* search raised after its similarity search had returned documents
C14_Witness ==
    /\ frame[MainProc] = "uhg_loop" /\ pc[MainProc] = "failed"
    /\ Len(CallsOf(MainProc)) = 2
    /\ CallsOf(MainProc)[2].raised
    /\ Tagged(CallsOf(MainProc)[2].prepared, "b360")
    /\ Len(ss_docs[MainProc]) = TopN

\* the scope handed to the retrieval that made the i-th call of request p
RetrievalScope(p, i) ==
    IF Routed(p) THEN heap[p][metadatas[p][(i + 1) \div 2]] ELSE given[p]

(***************************************************************************)
(* C15: the filter a retrieval prepares holds the entries of its scope     *)
(* but "member_id"; it has the conjunctive form exactly when more than one *)
(* entry remains and is the plain mapping otherwise; an absent scope is    *)
(* prepared as the empty scope is.                                         *)
(***************************************************************************)
C15_FilterPreparation ==
    \A p \in Procs :
        LET cs == CallsOf(p)
        IN  \A i \in 1..Len(cs) :
                LET scope == RetrievalScope(p, i)
                    remaining == DictKeys(scope) \ {"member_id"}
                    prepared == cs[i].prepared
                IN  /\ prepared.kv = [k \in remaining |-> scope.kv[k]]
                    /\ prepared.form = IF Cardinality(remaining) > 1 THEN "and"
                                       ELSE "plain"
                    /\ scope = NoFilter => prepared = PlainDict(EmptyDict)

\* the scope {"member_id": "m1", "data_source": "kc"}: two keys given, one
\* remaining, not translated
C15_Witness ==
    /\ frame[MainProc] = "single" /\ pc[MainProc] = "done"
    /\ DictKeys(given[MainProc]) = {"member_id", "data_source"}
    /\ given[MainProc].kv["data_source"] = "kc"
    /\ CallsOf(MainProc)[1].prepared = PlainDict([k \in {"data_source"} |-> "kc"])

(***************************************************************************)
(* C16: the store calls of a request come one after the other in a fixed   *)
(* order.  The odd calls are similarity searches asking for 50 candidates, *)
(* the even calls diversity searches asking for 1 result with coefficient  *)
(* 0.5, each for the query of the similarity search before it, which has   *)
(* returned; a request about to make its diversity search has made its     *)
(* similarity search and no other call since.  A finished single-query     *)
(* retrieval made exactly 2 calls, a finished multi-query retrieval over n *)
(* queries exactly 2n, the j-th pair for the j-th query.                   *)
(***************************************************************************)
C16_CallOrder ==
    \A p \in Procs :
        LET cs == CallsOf(p)
        IN  /\ \A i \in 1..Len(cs) :
                   IF i % 2 = 1
                   THEN /\ cs[i].op = "similarity_search_with_score"
                        /\ cs[i].k = 50
                   ELSE /\ cs[i].op = "max_marginal_relevance_search"
                        /\ cs[i].k = 1 /\ cs[i].lambda_mult = "0.5"
                        /\ cs[i].query = cs[i - 1].query
                        /\ ~cs[i - 1].raised
            /\ pc[p] = "ss" => Len(cs) % 2 = 0
            /\ pc[p] = "mmr" => Len(cs) % 2 = 1
            /\ (pc[p] = "done" /\ frame[p] = "single") =>
                   (Len(cs) = 2 /\ cs[1].query = questions[p][1])
            /\ (pc[p] = "done" /\ frame[p] = "multi") =>
                   /\ Len(cs) = 2 * Len(questions[p])
                   /\ \A j \in 1..Len(questions[p]) : cs[2 * j - 1].query = questions[p][j]

\* a finished batch of two different queries
C16_Witness ==
    /\ frame[MainProc] = "multi" /\ pc[MainProc] = "done"
    /\ Len(questions[MainProc]) = 2
    /\ questions[MainProc][1] # questions[MainProc][2]
    /\ Len(CallsOf(MainProc)) = 4

\* the list a request returns when nothing else runs: a function of the
\* store and of the request's own arguments
RetrievedAlone(s, q) ==
    Fuse(TopDocuments(similarity_search_with_score(s, q, K_SS, NoFilter)),
         max_marginal_relevance_search(s, q, K_MMR, NoFilter))

ResultAlone(s, fr, qs, a) ==
    CASE fr = "multi" ->
             remove_duplicates(Concat([j \in 1..Len(qs) |-> RetrievedAlone(s, qs[j])]))
      [] fr = "uhg_loop" -> RetrievedAlone(s, qs[1]) \o RetrievedAlone(s, qs[1])
      [] OTHER -> RetrievedAlone(s, qs[1])

\* everything request p holds
OwnState(p) ==
    <<pc[p], frame[p], questions[p], qi[p], scopeRef[p], given[p], heap[p],
      metadatas[p], mi[p], metadata[p], ss_docs[p], documents[p], parts[p],
      result[p]>>

\* what holds of two concurrent requests in every state
C17_Isolated ==
    \A p \in Procs :
        /\ pc[p] = "done" =>
               result[p] = ResultAlone(store, frame[p], questions[p], given[p])
        /\ (pc[p] # "idle" /\ scopeRef[p] # None) => heap[p][scopeRef[p]] = given[p]
        /\ (pc[p] # "idle" /\ frame[p] \in {"multi", "uhg_loop"}) =>
               documents[p] = Concat(parts[p])

(***************************************************************************)
(* C17: of two requests running at once against one store, each returns    *)
(* the list it returns when run alone, whatever the order of their store   *)
(* calls; each caller's scope stays as it was given; a request's           *)
(* accumulation list holds its own retrievals' lists and nothing else; and *)
(* no step of one request changes anything the other holds (its scope      *)
(* copies, its lists).                                                     *)
(***************************************************************************)
C17_ConcurrentRequests ==
    /\ []C17_Isolated
    /\ [][\E p \in Procs : \A q \in Procs \ {p} : OwnState(q)' = OwnState(q)]_vars

\* both requests finished, their calls interleaved, each with a list of its
\* own: a batch and a routed retrieval over the same scope, different queries
C17_Witness ==
    /\ pc[MainProc] = "done" /\ pc[PeerProc] = "done"
    /\ frame[MainProc] = "multi" /\ frame[PeerProc] = "uhg_loop"
    /\ given[MainProc] = given[PeerProc]
    /\ questions[MainProc] # questions[PeerProc]
    /\ result[MainProc] # <<>>
    /\ \E i, j, k \in 1..Len(calls) :
           /\ i < j /\ j < k
           /\ calls[i].proc = PeerProc /\ calls[j].proc = MainProc
           /\ calls[k].proc = PeerProc

(***************************************************************************)
(* C18: run_single_prediction does not let a failure of the language-model *)
(* call out.  When llm.respond_api raised, or its conversation had no      *)
(* exchange to read the answer from, the exception was logged and the      *)
(* fixed fallback string returned; otherwise the answer of the last        *)
(* exchange was returned and nothing logged.  No call raised, and the      *)
(* pipeline never failed with the language model's exception.              *)
(***************************************************************************)
C18_PredictionNeverRaises ==
    /\ \A i \in 1..Len(predictions) :
           LET pr == predictions[i]
               exchanges == pr.outcome.exchanges
           IN  /\ pr.raised = "none"
               /\ IF pr.outcome.error # "none"
                  THEN /\ pr.logged = pr.outcome.error
                       /\ pr.answer = "I apologize, but no answer is available at this time."
                  ELSE IF exchanges = <<>>
                  THEN /\ pr.logged # "none"
                       /\ pr.answer = "I apologize, but no answer is available at this time."
                  ELSE /\ pr.logged = "none"
                       /\ pr.answer = exchanges[Len(exchanges)]
    /\ pipeline_error \in {"none", "ValueError", "UnboundLocalError"}
    /\ pipeline_pc \in {"row", "done"} => Len(predictions) = Len(asked)

\* a batch whose first call met a raising language model, whose second call
\* met a conversation without exchanges, and which ended normally
C18_Witness ==
    /\ pipeline_pc = "done" /\ mode = "batch"
    /\ Len(predictions) = 2
    /\ predictions[1].outcome.error = "RuntimeError"
    /\ predictions[1].answer = Fallback
    /\ predictions[2].outcome = LlmOutcome("none", <<>>)
    /\ predictions[2].answer = Fallback

(***************************************************************************)
(* C20: a batch run that has ended asked the question of every row of the  *)
(* CSV exactly once, in row order, each by a call of                       *)
(* run_single_prediction, with personalization configured or not; without  *)
(* it every call was handed no context (None); while the run goes on the   *)
(* questions asked are those of the first rows.  A run with a mode other   *)
(* than "batch" or "step" fails with ValueError and asks nothing.          *)
(***************************************************************************)
C20_BatchAsksEveryRow ==
    /\ mode = "batch" =>
           /\ Len(asked) <= Len(df)
           /\ \A i \in 1..Len(asked) : asked[i].question = df[i].question
           /\ pipeline_pc \in {"done", "failed"} => Len(asked) = Len(df)
           /\ ~personalization => \A i \in 1..Len(asked) : asked[i].context = PyNone
    /\ mode \notin {"batch", "step", "none"} =>
           (pipeline_pc = "failed" /\ pipeline_error = "ValueError" /\ asked = <<>>)

\* whether the target of the last BigQuery call exists
TargetExists ==
    IF bq_call.op = "create_dataset" THEN bq_call.target \in datasets
    ELSE bq_call.target \in tables

(***************************************************************************)
(* C19: after create_dataset or create_table whose target existed when the *)
(* call began: with the recreate flag the target was deleted and created   *)
(* again, without it the call raised an error.  After every call that      *)
(* raised nothing the target exists.                                       *)
(***************************************************************************)
C19_ExistingTargetRecreatedOrError ==
    bq_call # NoBqCall =>
        /\ (bq_call.existed /\ bq_call.recreate) =>
               /\ bq_call.error = "none"
               /\ \E i, j \in 1..Len(bq_call.api) :
                      /\ i < j
                      /\ bq_call.api[i] \in {"delete_dataset", "delete_table"}
                      /\ bq_call.api[j] \in {"create_dataset", "create_table"}
        /\ (bq_call.existed /\ ~bq_call.recreate) => bq_call.error # "none"
        /\ bq_call.error = "none" => TargetExists

====
